---- MODULE Spec2Model ----
(***************************************************************************)
(* Model of utils_seleniumxp: the popup-close queue of webdriver_addon.py  *)
(* (closepopup, closepopup_queueadd, closepopup_queueprocessing,           *)
(* closewindows) and the event dispatch wrapper of eventfiring_addon.py    *)
(* (_dispatch, _getattr, _getattr_dispatch_generic and the intercepted     *)
(* methods of the event-firing driver, element, switch-to and alert).      *)
(*                                                                         *)
(* The browser is the environment: how many frames or shadow hosts a       *)
(* locator matches, which elements a lookup returns and how each element   *)
(* answers is_displayed() and click() are nondeterministic choices.        *)
(* Locators are modelled by their selector kind (the .by field); the       *)
(* selector string only decides what the browser answers.  wait_click and  *)
(* wait_iframe are pure delays and carry no state.  The driver carries a   *)
(* closepopup_logger (log_closepopup is on), so every outcome is logged.   *)
(***************************************************************************)
EXTENDS Integers, Sequences, FiniteSets, TLC

VARIABLES
    eventfiring,        \* the caller's driver is an EventFiringWebDriverExtended
    hasqueue,           \* hasattr(webdriver, "closepopup_queue")
    closepopup_queue,   \* the deque of queue entries
    nextid,             \* ticket of the next enqueued request (history)
    pc,                 \* position of the running call
    mode,               \* last call: "simpleclose" | "queueprocessing" | "intercept" | "none"
    firstonly,          \* parameter of the running drain
    closedpopup,        \* local of closepopup_queueprocessing
    cur,                \* the queue entry in work and the locals bound to it
    inframe,            \* the browsing context is a frame (switch_to.frame)
    window_handles,     \* webdriver.window_handles
    result,             \* how the last call ended
    evlog,              \* listener notifications and real calls of the last step
    popped,             \* tickets in the order popleft() returned them (history)
    clicks,             \* click() calls that succeeded in the running drain (history)
    bracket,            \* before_/after_closepopuphandler notifications of the call
    lastcall,           \* the intercepted method the last call went to (history)
    queue_on            \* the closepopup_queue attribute of each object

vars == <<eventfiring, hasqueue, closepopup_queue, nextid, pc,
          mode, firstonly, closedpopup, cur, inframe, window_handles, result,
          evlog, popped, clicks, bracket, lastcall, queue_on>>

\* ---------------------------------------------------------------- bounds
MaxReq == 2     \* requests enqueued in one run
MaxElts == 2    \* elements one lookup returns
MaxTickets == 3 \* requests enqueued on an event-firing driver and the driver it wraps
MaxOpen == 1    \* windows one click opens

\* ------------------------------------------------------------- constants
None == "None"
XPATH == "xpath"
CSS_SELECTOR == "css selector"
ID == "id"

\* check_locatorlist / check_locator: None passes, otherwise .by must be listed
check_locator(locator, loctypes) ==
    IF locator = None THEN TRUE ELSE locator \in loctypes

\* the queue entries the callers of this model enqueue
Request(click, check, iframe, host) ==
    [locator_click |-> click, check_click |-> check,
     locator_iframe |-> iframe, locator_shadowdomhost |-> host]

Requests ==
    UNION {{Request(XPATH, check, None, None),
            Request(ID, check, ID, None),
            Request(XPATH, check, None, CSS_SELECTOR),
            Request(ID, check, XPATH, CSS_SELECTOR)} : check \in BOOLEAN}

\* ------------------------------------------------- exceptions and events
\* class ErrorUtilsSelenium(BaseException): every other exception of the model
\* is a selenium or builtin exception deriving from Exception
ExceptionTypes == {"TimeoutException", "WebDriverException",
                   "StaleElementReferenceException", "AttributeError",
                   "NoSuchElementException", "TypeError"}

\* "except Exception as e" matches
IsException(exc) == exc \in ExceptionTypes

Ev(ev, name, src) == [ev |-> ev, name |-> name, src |-> src]

\* _dispatch, the part before the real call
DispatchBeforeNever(l_call) == <<>>

DispatchBefore(l_call) ==
    IF l_call # None /\ l_call # "" THEN <<Ev("before", l_call, 0)>> ELSE <<>>

\* _dispatch, the except clause: notify the listener, then re-raise
DispatchExcept(exc, src) ==
    IF IsException(exc) THEN <<Ev("on_exception", exc, src)>> ELSE <<>>

\* _dispatch, the part after the real call returned
DispatchAfter(l_call) ==
    IF l_call # None /\ l_call # "" THEN <<Ev("after", l_call, 0)>> ELSE <<>>

DispatchAfterFirst(l_call, d_call, inner, exc, src) ==
    DispatchAfter(l_call) \o <<Ev("call", d_call, src)>> \o inner \o
       (IF exc # None THEN DispatchExcept(exc, src) ELSE DispatchBefore(l_call))

\* _dispatch around one real call: inner is what the real call itself logged,
\* exc the exception it raised (None: it returned)
Dispatch(l_call, d_call, inner, exc, src) ==
    DispatchBefore(l_call) \o <<Ev("call", d_call, src)>> \o inner \o
       (IF exc # None THEN DispatchExcept(exc, src) ELSE DispatchAfter(l_call))

\* _getattr: the wrapper around a callable attribute, no hooks
Getattr(name, exc, src) ==
    <<Ev("call", name, src)>> \o (IF exc # None THEN DispatchExcept(exc, src) ELSE <<>>)

\* _getattr on a name the wrapped object does not have (hasattr(...) is False)
GetattrMissing(name) == DispatchExcept("AttributeError", 0)

\* number of on_exception notifications for exception (exc, src) in a log
RECURSIVE Notified(_, _, _)
Notified(log, exc, src) ==
    IF log = <<>> THEN 0
    ELSE (IF Head(log) = Ev("on_exception", exc, src) THEN 1 ELSE 0)
         + Notified(Tail(log), exc, src)

\* ------------------------------------------------------- browser elements
Stale == "StaleElementReferenceException"

\* how the element a loop reaches answers: is_displayed() False | is_displayed()
\* raises stale | displayed and click() returns | displayed and click() raises
\* stale | displayed and click() raises another WebDriverException
ElementKinds == {"hidden", "stale", "visible", "visible_stale", "visible_error"}

\* the elements of the re-lookup after a click (only is_displayed() is called)
VerifyKinds == {"hidden", "stale", "visible"}

\* webelt.is_displayed() returned True
IsDisplayedAlways(e) == e # "stale"

IsDisplayed(e) == e \in {"visible", "visible_stale", "visible_error"}

\* what webelt.click() raises (None: the click is done)
ClickExc(e) ==
    CASE e = "visible_stale" -> Stale
      [] e = "visible_error" -> "WebDriverException"
      [] OTHER -> None

\* webelt.is_displayed() on an element of the loop, as the listener sees it
\* (wrapped: the element is an EventFiringWebElementExtended, so the call
\* goes through __getattr__ and _getattr)
IsDisplayedLog(e, i, wrapped) ==
    IF wrapped THEN Getattr("is_displayed", IF e = "stale" THEN Stale ELSE None, i)
    ELSE <<>>

\* one round of the click loop "for webelt in webelts" on element i:
\* "pass" (next element), "click" (clicked, break) or "raise"
ClickRound(e, i, wrapped) ==
    LET disp == IsDisplayedLog(e, i, wrapped)
    IN IF e = "stale" THEN [do |-> "pass", exc |-> None, log |-> disp]
       ELSE IF ~IsDisplayed(e) THEN [do |-> "pass", exc |-> None, log |-> disp]
       ELSE LET exc == ClickExc(e)
                clk == IF wrapped THEN Dispatch("click", "click", <<>>, exc, i) ELSE <<>>
            IN [do |-> CASE exc = None -> "click" [] exc = Stale -> "pass"
                         [] OTHER -> "raise",
                exc |-> IF exc = Stale THEN None ELSE exc,
                log |-> disp \o clk]

\* one round of the verification loop after a click: a displayed element
\* raises ErrorUtilsSelenium("Popup could not be closed."); is_displayed() is
\* not guarded there, so a stale element raises
VerifyRound(e, i, wrapped) ==
    LET disp == IsDisplayedLog(e, i, wrapped)
    IN CASE e = "stale" -> [do |-> "raise", exc |-> Stale, log |-> disp]
         [] e = "visible" -> [do |-> "raise", exc |-> "ErrorUtilsSelenium", log |-> disp]
         [] OTHER -> [do |-> "pass", exc |-> None, log |-> disp]

\* ---------------------------------------------------------------- windows
InSeq(x, s) == \E k \in 1..Len(s) : s[k] = x

\* "for handle in reversed(window_handles): if handle not in keepwindows":
\* the position of the handle closed, 0 when every handle is kept
RECURSIVE LastNotKept(_, _, _)
LastNotKept(handles, keepwindows, k) ==
    IF k = 0 THEN 0
    ELSE IF ~InSeq(handles[k], keepwindows) THEN k
    ELSE LastNotKept(handles, keepwindows, k - 1)

RemoveAt(s, k) == SubSeq(s, 1, k - 1) \o SubSeq(s, k + 1, Len(s))

\* closewindows: the handles left, how many windows were closed, and whether
\* the while loop spins (more windows than keepcount and all of them kept)
RECURSIVE closewindows(_, _)
closewindows(handles, keepwindows) ==
    IF Len(keepwindows) = 0 THEN [handles |-> handles, closed |-> 0, spins |-> FALSE]
    ELSE IF Len(handles) > Len(keepwindows)
    THEN LET k == LastNotKept(handles, keepwindows, Len(handles))
         IN IF k = 0 THEN [handles |-> handles, closed |-> 0, spins |-> TRUE]
            ELSE LET r == closewindows(RemoveAt(handles, k), keepwindows)
                 IN [r EXCEPT !.closed = @ + 1]
    ELSE [handles |-> handles, closed |-> 0, spins |-> FALSE]

RECURSIVE NewHandles(_, _)
NewHandles(from, n) == IF n = 0 THEN <<>> ELSE <<from>> \o NewHandles(from + 1, n - 1)

RECURSIVE MaxOf(_)
MaxOf(s) == IF s = <<>> THEN 0
            ELSE LET m == MaxOf(Tail(s)) IN IF Head(s) > m THEN Head(s) ELSE m

RECURSIVE Repeat(_, _)
Repeat(log, n) == IF n = 0 THEN <<>> ELSE log \o Repeat(log, n - 1)

\* ------------------------------------------------------------ queue entry
\* the entry in work with the loop's locals: frames / hosts (matches counted,
\* -1: not looked for), nelts (len(webelts)), idx (elements the running loop
\* has handled), element (how the last one answered); history: switches,
\* lookups, clicked (index of the element clicked, 0: none), nclicks,
\* skipped (how the elements passed over before the click answered),
\* outcome (the line logged), verified (what the re-lookup after the click saw)
NoEntry ==
    [id |-> 0, locator_click |-> None, check_click |-> FALSE,
     locator_iframe |-> None, locator_shadowdomhost |-> None,
     frames |-> -1, hosts |-> -1, nelts |-> 0, idx |-> 0, element |-> None,
     switches |-> 0, lookups |-> 0, clicked |-> 0, nclicks |-> 0, skipped |-> {},
     closedpopup_thisrun |-> FALSE, outcome |-> "", verified |-> "no"]

\* the dict closepopup_queueadd appends, with the ticket of the request
queueentry(req, id) ==
    [NoEntry EXCEPT !.id = id,
                    !.locator_click = req.locator_click,
                    !.check_click = req.check_click,
                    !.locator_iframe = req.locator_iframe,
                    !.locator_shadowdomhost = req.locator_shadowdomhost]

\* deque.append
Enqueue(q, e) == Append(q, e)

\* deque.popleft: the entry taken and the queue left
PopRight(q) == [entry |-> q[Len(q)], rest |-> SubSeq(q, 1, Len(q) - 1)]

PopleftKeep(q) == [entry |-> Head(q), rest |-> q]

Popleft(q) == [entry |-> Head(q), rest |-> Tail(q)]

\* "if not firstonly or not closedpopup"
MayProcessAlways(fo, closed) == TRUE

MayProcess(fo, closed) == ~fo \/ ~closed

\* "convert locator within shadowDOM to CSS": cssify for XPATH; for any other
\* kind the ErrorUtilsSelenium is constructed but not raised
ConvertLocator(locator_click, locator_shadowdomhost) ==
    IF locator_shadowdomhost # None /\ locator_click = XPATH THEN CSS_SELECTOR
    ELSE locator_click

ParselKinds == {XPATH, CSS_SELECTOR}

\* ----------------------------------------------------- results and events
\* how a call ended: it returned value (a bool) or obj (the kind of object
\* handed back), or it raised exc, of which the listener was notified
\* `notified` times
Running ==
    [kind |-> "none", value |-> FALSE, obj |-> None, exc |-> None, src |-> 0,
     notified |-> 0]
Returned(v) ==
    [kind |-> "return", value |-> v, obj |-> None, exc |-> None, src |-> 0,
     notified |-> 0]
Raised(exc, src, log) ==
    [kind |-> "raise", value |-> FALSE, obj |-> None, exc |-> exc, src |-> src,
     notified |-> Notified(log, exc, src)]

\* what a call on the driver object logs: nothing on a plain driver
OnEF(log) == IF eventfiring THEN log ELSE <<>>

\* hasattr(webdriver, "closepopup_queue")
QueueCheck(has) == OnEF(IF has THEN <<>> ELSE GetattrMissing("closepopup_queue"))

\* webdriver.find_element / find_elements / execute_script / close
DriverCall(l_call, d_call) == OnEF(Dispatch(l_call, d_call, <<>>, None, 0))

\* webdriver.wait4AJAX(): reached through __getattr__ and _getattr
Wait4AJAX == OnEF(Getattr("wait4AJAX", None, 0))

\* the elements of a lookup are event-firing wrappers: found by the
\* event-firing driver itself, not by a raw shadow root
Wrapped(entry) == eventfiring /\ entry.locator_shadowdomhost = None

\* the exception leaves closepopup_queueprocessing: on the event-firing driver
\* the outer _dispatch of closepopup_eventfiring sees it
RaiseFrom(exc, src, steplog) ==
    LET log == steplog \o OnEF(DispatchExcept(exc, src))
    IN /\ pc' = "idle"
       /\ result' = Raised(exc, src, log)
       /\ evlog' = log

\* ------------------------------------------------- intercepted methods
M(obj, name, l_call, d_call) ==
    [obj |-> obj, name |-> name, l_call |-> l_call, d_call |-> d_call]

\* an argument value: a str with its characters, an int or a WebElement
Val(type, chars) == [type |-> type, chars |-> chars]

ArgValues == {Val("str", <<"a">>), Val("str", <<"a", "b">>), Val("int", <<>>),
              Val("WebElement", <<>>)}

\* the arguments of a call: positional values and the keys of **kwargs
Args(pos, kw) == [pos |-> pos, kw |-> kw]

NoArgs == Args(<<>>, <<>>)

\* the real call a dispatch makes: the method named, the arguments it is
\* handed, and bound = FALSE when the argument list cannot be built
RealCall(name, bound, a) == [name |-> name, bound |-> bound, pos |-> a.pos, kw |-> a.kw]

NoCall ==
    [obj |-> None, name |-> None, attr |-> None, l_call |-> None, d_call |-> None,
     path |-> None, args |-> NoArgs, real |-> RealCall(None, TRUE, NoArgs),
     ret |-> None]

\* the argument lists callers pass to the intercepted methods
CallerArgs(name) ==
    CASE name \in {"add_cookie", "delete_cookie", "get_cookie", "frame", "new_window",
                   "window", "send_keys"} ->
            {Args(<<v>>, <<>>) : v \in ArgValues}
      [] name = "start_session" ->
            {Args(<<Val("str", <<"a">>), v>>, <<>>) : v \in ArgValues}
      [] name = "request" ->
            {Args(<<Val("str", <<"a">>), Val("str", <<"a", "b">>)>>, kw) :
                kw \in {<<>>, <<"headers">>, <<"headers", "timeout">>}}
      [] OTHER -> {NoArgs}

\* "*v" in a call: a str unpacks into its characters, an int or a WebElement
\* is not iterable (TypeError)
Unpack(v) ==
    IF v.type = "str"
    THEN [ok |-> TRUE, items |-> [k \in 1..Len(v.chars) |-> Val("str", <<v.chars[k]>>)]]
    ELSE [ok |-> FALSE, items |-> <<>>]

\* "*kwargs" in a call: the keys of the dict as positional str values
UnpackKeys(kw) == [k \in 1..Len(kw) |-> Val("str", <<kw[k]>>)]

\* d_args as each method builds it, handed to the real method by
\* "getattr(dispatcher._dispatcherobject, d_call)(*d_args)"
d_args(m, a) ==
    CASE m.name = "frame" ->
            LET u == Unpack(a.pos[1])
            IN RealCall(m.d_call, u.ok, Args(u.items, <<>>))
      [] m.name = "request" ->
            RealCall(m.d_call, TRUE, Args(a.pos \o UnpackKeys(a.kw), <<>>))
      [] OTHER -> RealCall(m.d_call, TRUE, Args(a.pos, <<>>))

\* the methods the event-firing wrappers define, with the listener event
\* (l_call) and the real method (d_call) each hands to _dispatch
Methods ==
    {M("driver", "start_session", "start_session", "start_session"),
     M("driver", "refresh", "refresh", "refresh"),
     M("driver", "add_cookie", "cookiemanager", "add_cookie"),
     M("driver", "delete_all_cookies", "cookiemanager", "delete_all_cookies"),
     M("driver", "delete_cookie", "cookiemanager", "delete_cookies"),
     M("driver", "get_cookies", "cookiemanager", "get_cookies"),
     M("driver", "get_cookie", "cookiemanager", "get_cookie"),
     M("driver", "request", "request", "request"),
     M("switch_to", "active_element", None, "active_element"),
     M("switch_to", "alert", None, "alert"),
     M("switch_to", "default_content", "switch_to", "default_content"),
     M("switch_to", "frame", "switch_to", "frame"),
     M("switch_to", "new_window", "switch_to", "frame"),
     M("switch_to", "parent_frame", "switch_to", "parent_frame"),
     M("switch_to", "window", "switch_to", "window"),
     M("alert", "dismiss", "alerthandler", "dismiss"),
     M("alert", "accept", "alerthandler", "accept"),
     M("alert", "send_keys", "alerthandler", "send_keys"),
     M("element", "submit", "submit", "submit")}

\* what a real call does: it returns (None) or raises
RealOutcomes == {None, "WebDriverException", "ErrorUtilsSelenium"}

\* the kinds of object a real call hands back
RealReturns == {"builtin", "WebElement", "SwitchTo", "Alert", "list of WebElement",
                "EventFiringWebElementExtended", "WebDriver"}

\* the wrapper methods that hand the result of _dispatch back ("return
\* self._dispatch(...)"); the others return None
ReturnsResult(name) ==
    name \in {"get_cookies", "get_cookie", "request", "active_element", "alert"}

\* _wrap_elements
WrapElementsNoList(kind) ==
    CASE kind = "WebElement" -> "EventFiringWebElementExtended"
      [] kind = "SwitchTo" -> "EventFiringSwitchTo"
      [] kind = "Alert" -> "EventFiringAlert"
      [] OTHER -> kind

WrapElements(kind) ==
    CASE kind = "WebElement" -> "EventFiringWebElementExtended"
      [] kind = "SwitchTo" -> "EventFiringSwitchTo"
      [] kind = "Alert" -> "EventFiringAlert"
      [] kind = "list of WebElement" -> "list of EventFiringWebElementExtended"
      [] OTHER -> kind

\* _getattr_dispatch_generic, the _wrap it returns: named hooks when l_call
\* is given, the generic listener with "before_<d_call>" / "after_<d_call>"
\* otherwise
GenericBefore(l_call, d_call) ==
    IF l_call # None /\ l_call # "" THEN <<Ev("before", l_call, 0)>>
    ELSE <<Ev("generic_before", d_call, 0)>>

GenericAfter(l_call, d_call) ==
    IF l_call # None /\ l_call # "" THEN <<Ev("after", l_call, 0)>>
    ELSE <<Ev("generic_after", d_call, 0)>>

GetattrDispatchGeneric(l_call, d_call, exc) ==
    GenericBefore(l_call, d_call) \o <<Ev("call", d_call, 0)>> \o
       (IF exc # None THEN DispatchExcept(exc, 0) ELSE GenericAfter(l_call, d_call))

\* the listener as __getattr__ looks at it for one name
Listener(has_before, has_after, interface, listed) ==
    [has_before |-> has_before, has_after |-> has_after, interface |-> interface,
     listed |-> listed]

\* hasattr(listener, "before_<name>") and hasattr(listener, "after_<name>")
HasHooks(l) == l.has_before /\ l.has_after

\* hasattr(listener, "checkgeneric") and hasattr(listener,
\* "generic_listener_name") and listener.checkgeneric(name)
HasGeneric(l) == l.interface /\ l.listed

GetattrPathGenericFirst(obj, hooks, generic) ==
    IF obj # "driver" THEN "plain"
    ELSE IF generic THEN "generic"
    ELSE IF hooks THEN "named"
    ELSE "plain"

\* EventFiringWebDriverExtended.__getattr__: which wrapper answers for a name
\* (hooks: the listener has before_<name> and after_<name>; generic: it has
\* checkgeneric and generic_listener_name and checkgeneric(name) is true);
\* the switch-to, alert and element wrappers always answer with _getattr
GetattrPath(obj, hooks, generic) ==
    IF obj # "driver" THEN "plain"
    ELSE IF hooks THEN "named"
    ELSE IF generic THEN "generic"
    ELSE "plain"

\* --------------------------------------- the level of the queue attribute
\* the objects a closepopup_queue attribute can be set on: the event-firing
\* driver and the driver it wraps (_driver)
Objects == {"efdriver", "driver"}

\* an object without the attribute, and one holding the deque q
NoAttribute == [has |-> FALSE, q |-> <<>>]

Attribute(q) == [has |-> TRUE, q |-> q]

\* the object the caller's driver is
Caller == IF eventfiring THEN "efdriver" ELSE "driver"

\* _dispatch: the object the called method is looked up on and bound to
DispatchTargetDown(dispatcher, b_recursive) == "driver"

DispatchTarget(dispatcher, b_recursive) ==
    IF dispatcher = "efdriver" /\ b_recursive THEN "efdriver" ELSE "driver"

\* the webdriver argument the closepopup functions run with: the plain driver
\* has them as methods, the event-firing driver dispatches with
\* b_recursive=True to its own _closepopup... methods
Webdriver(via) == IF via = "efdriver" THEN DispatchTarget(via, TRUE) ELSE via

\* hasattr/getattr(webdriver, "closepopup_queue"): the object whose attribute
\* answers, None if there is none; an event-firing driver without the
\* attribute asks __getattr__, which asks the wrapped driver (_getattr)
Resolve(q_on, webdriver) ==
    IF q_on[webdriver].has THEN webdriver
    ELSE IF webdriver = "efdriver" /\ q_on["driver"].has THEN "driver"
    ELSE None

\* setattr(webdriver, "closepopup_queue", deque()): the object that gets the
\* attribute; the event-firing driver of the selenium library hands a public
\* name the wrapped driver already has to the wrapped driver
SetattrLevel(q_on, webdriver) ==
    IF webdriver = "efdriver" /\ q_on["driver"].has THEN "driver" ELSE webdriver

\* closepopup_queueadd on the attribute: create it if hasattr fails, append
QueueAdd(q_on, via, id) ==
    LET w == Webdriver(via)
        made == IF Resolve(q_on, w) # None THEN q_on
                ELSE [q_on EXCEPT ![SetattrLevel(q_on, w)] = Attribute(<<>>)]
        lvl == Resolve(made, w)
    IN [made EXCEPT ![lvl] =
           Attribute(Enqueue(@.q, [id |-> id, via |-> via, webdriver |-> w]))]

\* n times webdriver.closepopup_queue.popleft()
QueuePop(q_on, via, n) ==
    LET lvl == Resolve(q_on, Webdriver(via))
    IN IF lvl = None THEN q_on
       ELSE [q_on EXCEPT ![lvl] = Attribute(SubSeq(@.q, n + 1, Len(@.q)))]

\* ----------------------------------------------------------------- state
Init ==
    /\ eventfiring \in BOOLEAN
    /\ hasqueue = FALSE
    /\ closepopup_queue = <<>>
    /\ nextid = 1
    /\ pc = "idle"
    /\ mode = "none"
    /\ firstonly = TRUE
    /\ closedpopup = FALSE
    /\ cur = NoEntry
    /\ inframe = FALSE
    /\ window_handles = <<1>>
    /\ result = Running
    /\ evlog = <<>>
    /\ popped = <<>>
    /\ clicks = 0
    /\ bracket = "none"
    /\ lastcall = NoCall
    /\ queue_on = [o \in Objects |-> NoAttribute]

\* closepopup_queueadd (closepopup_queueadd_eventfiring on the event-firing
\* driver: _dispatch(None, (), "_closepopup_queueadd", ..., b_recursive=True))
closepopup_queueadd(req) ==
    /\ pc = "idle"
    /\ nextid <= MaxReq
    /\ hasqueue' = TRUE
    /\ closepopup_queue' = Enqueue(closepopup_queue, queueentry(req, nextid))
    /\ nextid' = nextid + 1
    /\ evlog' = OnEF(Dispatch(None, "_closepopup_queueadd", QueueCheck(hasqueue), None, 0))
    /\ result' = Returned(FALSE)
    /\ mode' = "none"
    /\ cur' = NoEntry
    /\ clicks' = 0
    /\ bracket' = "none"
    /\ lastcall' = NoCall
    /\ queue_on' = QueueAdd(queue_on, Caller, nextid)
    /\ UNCHANGED <<eventfiring, pc, firstonly, closedpopup, inframe, window_handles,
                   popped>>

\* the head of closepopup_queueprocessing: closedpopup = False, the hasattr
\* check and the first wait4AJAX; on the event-firing driver the outer
\* _dispatch("closepopuphandler", (m, driver), d_call, ...) has fired before
StartDrain(m, d_call, fo, has, q, prelog) ==
    /\ pc' = "loop"
    /\ mode' = m
    /\ firstonly' = fo
    /\ closedpopup' = FALSE
    /\ cur' = NoEntry
    /\ clicks' = 0
    /\ result' = Running
    /\ bracket' = IF eventfiring THEN "open" ELSE "none"
    /\ lastcall' = NoCall
    /\ evlog' = OnEF(DispatchBefore("closepopuphandler") \o <<Ev("call", d_call, 0)>>
                     \o prelog \o QueueCheck(has)
                     \o (IF has /\ Len(q) > 0 THEN Wait4AJAX ELSE <<>>))

\* closepopup_queueprocessing(webdriver, firstonly)
closepopup_queueprocessing(fo) ==
    /\ pc = "idle"
    /\ StartDrain("queueprocessing", "_closepopup_queueprocessing", fo, hasqueue,
                  closepopup_queue, <<>>)
    /\ UNCHANGED <<queue_on, eventfiring, hasqueue, closepopup_queue, nextid, inframe,
                   window_handles, popped>>

\* closepopup: closepopup_queueadd, then closepopup_queueprocessing(webdriver)
closepopup(req) ==
    /\ pc = "idle"
    /\ nextid <= MaxReq
    /\ hasqueue' = TRUE
    /\ closepopup_queue' = Enqueue(closepopup_queue, queueentry(req, nextid))
    /\ nextid' = nextid + 1
    /\ StartDrain("simpleclose", "_closepopup", TRUE, TRUE, closepopup_queue',
                  QueueCheck(hasqueue))
    /\ queue_on' = QueueAdd(queue_on, Caller, nextid)
    /\ UNCHANGED <<eventfiring, inframe, window_handles, popped>>

\* the value closepopup_queueprocessing returns
ReturnValueLastRun(closed, entry) == entry.closedpopup_thisrun

ReturnValue(closed, entry) == closed

\* "while len(webdriver.closepopup_queue) > 0" is false: return closedpopup
Return ==
    /\ pc = "loop"
    /\ ~hasqueue \/ Len(closepopup_queue) = 0
    /\ pc' = "idle"
    /\ result' = Returned(ReturnValue(closedpopup, cur))
    /\ evlog' = OnEF(DispatchAfter("closepopuphandler"))
    /\ bracket' = IF eventfiring THEN "closed" ELSE "none"
    /\ UNCHANGED <<queue_on, lastcall, eventfiring, hasqueue, closepopup_queue, nextid,
                   mode, firstonly,
                   closedpopup, cur, inframe, window_handles, popped, clicks>>

\* loop head: wait4AJAX, popleft, the firstonly test, locator conversion
Dequeue ==
    /\ pc = "loop"
    /\ hasqueue /\ Len(closepopup_queue) > 0
    /\ LET p == Popleft(closepopup_queue)
           e == p.entry
       IN /\ closepopup_queue' = p.rest
          /\ popped' = Append(popped, e.id)
          /\ IF MayProcess(firstonly, closedpopup)
             THEN /\ cur' = [e EXCEPT !.locator_click =
                                ConvertLocator(e.locator_click, e.locator_shadowdomhost)]
                  /\ pc' = IF e.locator_iframe # None THEN "frame" ELSE "find"
             ELSE /\ cur' = [e EXCEPT !.outcome = "not checked"]
                  /\ pc' = "loop"
    /\ evlog' = Wait4AJAX
    /\ queue_on' = QueuePop(queue_on, Caller, 1)
    /\ UNCHANGED <<lastcall, eventfiring, hasqueue, nextid, mode, firstonly, closedpopup,
                   inframe, window_handles, result, clicks, bracket>>

\* what the frame test does with n matching frames
FrameVerdictSwitchAny(n) ==
    CASE n = 0 -> "FRAME not found"
      [] OTHER -> "switch"

FrameVerdict(n) ==
    CASE n = 0 -> "FRAME not found"
      [] n = 1 -> "switch"
      [] OTHER -> "FRAME not unique"

\* "go to frame of popup (if any)": n frames match locator_iframe (after the
\* one re-parse); with exactly one, WebDriverWait(...).until(
\* frame_to_be_available_and_switch_to_it) switches or times out
ResolveFrame ==
    /\ pc = "frame"
    /\ \E n \in 0..2, available \in BOOLEAN :
         LET look == IF check_locator(cur.locator_iframe, ParselKinds) THEN <<>>
                     ELSE DriverCall("find", "find_elements")
             v == FrameVerdict(n)
         IN /\ (v # "switch") => available
            /\ IF v # "switch"
               THEN /\ cur' = [cur EXCEPT !.frames = n, !.lookups = @ + 1, !.outcome = v]
                    /\ pc' = "loop"
                    /\ evlog' = look
                    /\ UNCHANGED <<inframe, result>>
               ELSE IF available
               THEN /\ cur' = [cur EXCEPT !.frames = n, !.lookups = @ + 1,
                                          !.switches = @ + 1]
                    /\ inframe' = TRUE
                    /\ pc' = "find"
                    /\ evlog' = look \o DriverCall("find", "find_element")
                    /\ UNCHANGED result
               ELSE /\ cur' = [cur EXCEPT !.frames = n, !.lookups = @ + 1]
                    /\ RaiseFrom("TimeoutException", 0,
                          look \o OnEF(Dispatch("find", "find_element", <<>>,
                                                "NoSuchElementException", 0)))
                    /\ UNCHANGED inframe
    /\ UNCHANGED <<queue_on, lastcall, eventfiring, hasqueue, closepopup_queue, nextid,
                   mode, firstonly,
                   closedpopup, window_handles, popped, clicks, bracket>>

\* what the shadow host test does with n matching hosts
HostVerdictFirstOfMany(n) ==
    CASE n = 0 -> "ShadowDOM host not found"
      [] OTHER -> "lookup"

HostVerdict(n) ==
    CASE n = 0 -> "ShadowDOM host not found"
      [] n = 1 -> "lookup"
      [] OTHER -> "ShadowDOM host not unique"

\* "find close popup (considering also shadow DOM webelements)": n hosts match
\* locator_shadowdomhost, the lookup of locator_click returns k elements
\* (parsed: the parsed page has a match, so the driver is asked at all)
FindTargets ==
    /\ pc = "find"
    /\ \E n \in 0..2, parsed \in BOOLEAN, k \in 0..MaxElts :
         IF cur.locator_shadowdomhost # None
         THEN LET look == IF check_locator(cur.locator_shadowdomhost, ParselKinds)
                          THEN <<>> ELSE DriverCall("find", "find_elements")
                  v == HostVerdict(n)
              IN /\ parsed
                 /\ (v # "lookup") => k = 0
                 /\ IF v # "lookup"
                    THEN /\ cur' = [cur EXCEPT !.hosts = n, !.lookups = @ + 1,
                                               !.outcome = v]
                         /\ pc' = "loop"
                         /\ evlog' = look
                    ELSE /\ cur' = [cur EXCEPT !.hosts = n, !.lookups = @ + 2,
                                               !.nelts = k,
                                               !.outcome = IF k = 0 THEN "not found"
                                                           ELSE @]
                         /\ pc' = IF k = 0 THEN "back" ELSE "click"
                         /\ evlog' = look \o DriverCall("find", "find_element")
                                       \o DriverCall("execute_script", "execute_script")
         ELSE LET viaparsel == check_locator(cur.locator_click, ParselKinds)
              IN /\ n = 0
                 /\ ~viaparsel => parsed
                 /\ ~parsed => k = 0
                 /\ cur' = [cur EXCEPT !.lookups = @ + 1, !.nelts = k,
                                       !.outcome = IF k = 0 THEN "not found" ELSE @]
                 /\ pc' = IF k = 0 THEN "back" ELSE "click"
                 /\ evlog' = IF parsed THEN DriverCall("find", "find_elements") ELSE <<>>
    /\ UNCHANGED <<queue_on, lastcall, eventfiring, hasqueue, closepopup_queue, nextid,
                   mode, firstonly,
                   closedpopup, inframe, window_handles, result, popped, clicks,
                   bracket>>

\* "close popup", one round of "for webelt in webelts": element idx + 1
\* answers as e; a click may open new windows, which closewindows(webdriver,
\* keepwindows) closes again
ClickElement ==
    /\ pc = "click"
    /\ \E e \in ElementKinds, opened \in 0..MaxOpen :
         LET i == cur.idx + 1
             r == ClickRound(e, i, Wrapped(cur))
             countwindows == Len(window_handles)
             keepwindows == window_handles
             after == window_handles \o NewHandles(MaxOf(window_handles) + 1, opened)
             w == IF Len(after) > countwindows THEN closewindows(after, keepwindows)
                  ELSE [handles |-> after, closed |-> 0, spins |-> FALSE]
         IN /\ (r.do # "click") => opened = 0
            /\ CASE r.do = "raise" ->
                      /\ cur' = [cur EXCEPT !.idx = i, !.element = e]
                      /\ RaiseFrom(r.exc, i, r.log)
                      /\ UNCHANGED <<closedpopup, clicks, window_handles>>
                 [] r.do = "pass" ->
                      /\ cur' = [cur EXCEPT !.idx = i, !.element = e,
                                            !.skipped = @ \cup {e}]
                      /\ pc' = IF i < cur.nelts THEN "click"
                               ELSE IF cur.check_click /\ cur.closedpopup_thisrun
                               THEN "check" ELSE "back"
                      /\ evlog' = r.log
                      /\ UNCHANGED <<closedpopup, clicks, window_handles, result>>
                 [] r.do = "click" ->
                      /\ window_handles' = w.handles
                      /\ closedpopup' = TRUE
                      /\ clicks' = clicks + 1
                      /\ cur' = [cur EXCEPT !.idx = i, !.element = e, !.clicked = i,
                                            !.nclicks = @ + 1,
                                            !.closedpopup_thisrun = TRUE,
                                            !.outcome = "found target"]
                      /\ pc' = IF w.spins THEN "click"
                               ELSE IF cur.check_click THEN "check" ELSE "back"
                      /\ evlog' = r.log \o Repeat(DriverCall("close", "close"), w.closed)
                      /\ UNCHANGED result
    /\ UNCHANGED <<queue_on, lastcall, eventfiring, hasqueue, closepopup_queue, nextid,
                   mode, firstonly,
                   inframe, popped, bracket>>

\* "if check_click and closedpopup_thisrun": the target is looked up again
\* and k elements come back
CheckLookup ==
    /\ pc = "check"
    /\ \E k \in 0..MaxElts :
         /\ cur' = [cur EXCEPT !.lookups = @ + 1, !.nelts = k, !.idx = 0,
                               !.element = None,
                               !.verified = IF k = 0 THEN "gone" ELSE "looking"]
         /\ pc' = IF k = 0 THEN "back" ELSE "verify"
    /\ evlog' = IF cur.locator_shadowdomhost # None THEN <<>>
                ELSE DriverCall("find", "find_elements")
    /\ UNCHANGED <<queue_on, lastcall, eventfiring, hasqueue, closepopup_queue, nextid,
                   mode, firstonly,
                   closedpopup, inframe, window_handles, result, popped, clicks,
                   bracket>>

\* one round of "for webelt in webelts: if webelt.is_displayed(): raise"
VerifyElement ==
    /\ pc = "verify"
    /\ \E e \in VerifyKinds :
         LET i == cur.idx + 1
             r == VerifyRound(e, i, Wrapped(cur))
         IN IF r.do = "raise"
            THEN /\ cur' = [cur EXCEPT !.idx = i, !.element = e,
                                       !.verified = IF e = "visible" THEN "displayed"
                                                    ELSE "stale"]
                 /\ RaiseFrom(r.exc, i, r.log)
            ELSE /\ cur' = [cur EXCEPT !.idx = i, !.element = e,
                                       !.verified = IF e = "visible" THEN "displayed"
                                                    ELSE IF i < cur.nelts THEN "looking"
                                                    ELSE "gone"]
                 /\ pc' = IF i < cur.nelts THEN "verify" ELSE "back"
                 /\ evlog' = r.log
                 /\ UNCHANGED result
    /\ UNCHANGED <<queue_on, lastcall, eventfiring, hasqueue, closepopup_queue, nextid,
                   mode, firstonly,
                   closedpopup, inframe, window_handles, popped, clicks, bracket>>

\* "switch back from frame if necessary": switch_to is reached through
\* __getattr__, which returns the raw SwitchTo object (not callable)
SwitchBack ==
    /\ pc = "back"
    /\ inframe' = IF cur.locator_iframe # None /\ cur.frames # 0 THEN FALSE ELSE inframe
    /\ pc' = "loop"
    /\ evlog' = <<>>
    /\ UNCHANGED <<queue_on, lastcall, eventfiring, hasqueue, closepopup_queue, nextid,
                   mode, firstonly,
                   closedpopup, cur, window_handles, result, popped, clicks, bracket>>

\* a call of a method the event-firing wrapper defines with arguments a:
\* _dispatch(l_call, l_args, d_call, d_args) with the real call returning or
\* raising exc; when "*d_args" cannot be unpacked the call expression raises
\* TypeError inside the try
Intercepted(m, a, exc, ret) ==
    /\ pc = "idle"
    /\ eventfiring
    /\ LET real == d_args(m, a)
           fail == IF real.bound THEN exc ELSE "TypeError"
           log == Dispatch(m.l_call, m.d_call, <<>>, fail, 0)
       IN /\ fail # None => ret = "builtin"
          /\ ~real.bound => exc = None
          /\ evlog' = log
          /\ result' = IF fail = None
                       THEN [Returned(FALSE) EXCEPT
                               !.obj = IF ReturnsResult(m.name) THEN WrapElements(ret)
                                       ELSE None]
                       ELSE Raised(fail, 0, log)
          /\ lastcall' = [obj |-> m.obj, name |-> m.name, attr |-> "method",
                          l_call |-> m.l_call, d_call |-> m.d_call,
                          path |-> "dispatch", args |-> a, real |-> real,
                          ret |-> IF fail = None THEN ret ELSE None]
    /\ mode' = "intercept"
    /\ cur' = NoEntry
    /\ clicks' = 0
    /\ bracket' = "none"
    /\ UNCHANGED <<queue_on, eventfiring, hasqueue, closepopup_queue, nextid, pc, firstonly,
                   closedpopup, inframe, window_handles, popped>>

\* a call of a name the wrapper does not define, fetched by __getattr__ and
\* then called: attr is "method" (callable), "value" (returned as is) or
\* "missing" (the wrapped object has no such attribute); l describes the
\* listener: it has before_<name>, it has after_<name>, it has checkgeneric
\* and generic_listener_name (interface), events_generic lists the name
AttributeCall(obj, l, attr, exc, ret) ==
    /\ pc = "idle"
    /\ eventfiring
    /\ (exc # None \/ attr = "missing") => ret = "builtin"
    /\ obj # "driver" => l = Listener(FALSE, FALSE, FALSE, FALSE)
    /\ ~l.interface => ~l.listed
    /\ attr # "method" => exc = None
    /\ LET path == GetattrPath(obj, HasHooks(l), HasGeneric(l))
           l_call == IF path = "named" THEN "attr" ELSE None
           fail == IF attr = "missing" THEN "AttributeError" ELSE exc
           log == CASE attr = "value" -> <<>>
                    [] attr = "missing" ->
                         IF path = "plain" THEN GetattrMissing("attr") ELSE <<>>
                    [] OTHER ->
                         IF path = "plain" THEN Getattr("attr", exc, 0)
                         ELSE GetattrDispatchGeneric(l_call, "attr", exc)
       IN /\ evlog' = log
          /\ result' = IF fail # None THEN Raised(fail, 0, log)
                       ELSE [Returned(FALSE) EXCEPT
                               !.obj = IF attr = "value" THEN ret ELSE WrapElements(ret)]
          /\ lastcall' = [obj |-> obj, name |-> "attr", attr |-> attr,
                          l_call |-> l_call, d_call |-> "attr", path |-> path,
                          args |-> l, real |-> RealCall("attr", TRUE, NoArgs),
                          ret |-> IF fail = None THEN ret ELSE None]
    /\ mode' = "intercept"
    /\ cur' = NoEntry
    /\ clicks' = 0
    /\ bracket' = "none"
    /\ UNCHANGED <<queue_on, eventfiring, hasqueue, closepopup_queue, nextid, pc, firstonly,
                   closedpopup, inframe, window_handles, popped>>

\* ------------------------------------------------------------ shadow DOM
\* prepare_selector: the CSS selector for a locator, or ErrorUtilsSelenium
\* ("Only CSS selector allowed together with element in shadowDOM.")
prepare_selector(locator) ==
    CASE locator = XPATH -> [exc |-> None, by |-> CSS_SELECTOR]
      [] locator = CSS_SELECTOR -> [exc |-> None, by |-> CSS_SELECTOR]
      [] OTHER -> [exc |-> "ErrorUtilsSelenium", by |-> locator]

\* what the browser does with the scripts of one lookup: derive (the script
\* "return arguments[0].shadowRoot" for a host element) and script (the
\* querySelectorAll chain) go through or raise, n elements match
Browser(derive, script, n) == [derive |-> derive, script |-> script, n |-> n]

\* find_elements_shadowdom: a list of n elements, None, or an exception
find_elements_shadowdom(locator_list, shadowroot, b) ==
    IF Len(locator_list) > 1 \/ shadowroot # None
    THEN IF \E k \in 1..Len(locator_list) : prepare_selector(locator_list[k]).exc # None
         THEN [kind |-> "raise", exc |-> "ErrorUtilsSelenium", n |-> 0, looked |-> FALSE]
         ELSE IF shadowroot = "WebElement" /\ ~b.derive
         THEN [kind |-> "raise", exc |-> "WebDriverException", n |-> 0, looked |-> FALSE]
         ELSE IF ~b.script
         THEN [kind |-> "None", exc |-> None, n |-> 0, looked |-> TRUE]
         ELSE [kind |-> "list", exc |-> None, n |-> b.n, looked |-> TRUE]
    ELSE [kind |-> "raise", exc |-> "ErrorUtilsSelenium", n |-> 0, looked |-> FALSE]

\* find_element_shadowdom: the element, None, or an exception
find_element_shadowdomFirst(locator_list, shadowroot, b) ==
    LET webelts == find_elements_shadowdom(locator_list, shadowroot, b)
    IN CASE webelts.kind = "raise" -> [kind |-> "raise", obj |-> None, exc |-> webelts.exc]
         [] webelts.kind = "list" /\ webelts.n >= 1 ->
               [kind |-> "return", obj |-> "WebElement", exc |-> None]
         [] OTHER -> [kind |-> "return", obj |-> None, exc |-> None]

find_element_shadowdom(locator_list, shadowroot, b) ==
    LET webelts == find_elements_shadowdom(locator_list, shadowroot, b)
    IN CASE webelts.kind = "raise" -> [kind |-> "raise", obj |-> None, exc |-> webelts.exc]
         [] webelts.kind = "list" /\ webelts.n = 1 ->
               [kind |-> "return", obj |-> "WebElement", exc |-> None]
         [] webelts.kind = "list" /\ webelts.n > 1 ->
               [kind |-> "raise", obj |-> None, exc |-> "ErrorUtilsSelenium"]
         [] OTHER -> [kind |-> "return", obj |-> None, exc |-> None]

LocatorLists ==
    {<<a>> : a \in {XPATH, CSS_SELECTOR, ID}}
       \cup {<<a, c>> : a \in {XPATH, CSS_SELECTOR}, c \in {XPATH, CSS_SELECTOR, ID}}

\* a call find_element_shadowdom(webdriver, locator_list, shadowroot)
FindElementShadowdom(locator_list, shadowroot, b) ==
    /\ pc = "idle"
    /\ LET webelts == find_elements_shadowdom(locator_list, shadowroot, b)
           r == find_element_shadowdom(locator_list, shadowroot, b)
       IN /\ (shadowroot # "WebElement") => b.derive
          /\ ~webelts.looked => (b.script /\ b.n = 0)
          /\ ~b.script => b.n = 0
          /\ result' = IF r.kind = "raise" THEN Raised(r.exc, 0, <<>>)
                       ELSE [Returned(FALSE) EXCEPT !.obj = r.obj]
          /\ lastcall' = [NoCall EXCEPT !.name = "find_element_shadowdom",
                                        !.attr = "function", !.path = "direct",
                                        !.args = [locator_list |-> locator_list,
                                                  shadowroot |-> shadowroot],
                                        !.real = [looked |-> webelts.looked,
                                                  script |-> b.script, n |-> b.n],
                                        !.ret = r.obj]
    /\ mode' = "shadowdom"
    /\ evlog' = <<>>
    /\ cur' = NoEntry
    /\ clicks' = 0
    /\ bracket' = "none"
    /\ UNCHANGED <<queue_on, eventfiring, hasqueue, closepopup_queue, nextid, pc, firstonly,
                   closedpopup, inframe, window_handles, popped>>

\* ------------------------------------------------------ event listener
\* AbstractEventListenerExtended.checkevent
checkevent(event_name, events_include, events_exclude) ==
    /\ (event_name \in events_include \/ events_include = {})
    /\ event_name \notin events_exclude

\* the events a listener is told of: a named hook, on_exception, and a
\* generic event ("before_<name>" handed to generic_listener)
ListenerEvents ==
    {[handler |-> "before_click", event_name |-> "before_click"],
     [handler |-> "on_exception", event_name |-> "on_exception"],
     [handler |-> "generic_listener", event_name |-> "before_maximize_window"]}

EventNames == {ev.event_name : ev \in ListenerEvents}

\* SimpleEventListener: does the handler write a log record
Logs(ev, events_include, events_exclude) ==
    IF ev.handler = "generic_listener" THEN TRUE
    ELSE checkevent(ev.event_name, events_include, events_exclude)

\* the listener is told of event ev
Listen(ev, events_include, events_exclude) ==
    /\ pc = "idle"
    /\ lastcall' = [NoCall EXCEPT !.obj = "listener", !.name = ev.handler,
                                  !.attr = "function", !.path = "direct",
                                  !.args = [event_name |-> ev.event_name,
                                            events_include |-> events_include,
                                            events_exclude |-> events_exclude],
                                  !.ret = Logs(ev, events_include, events_exclude)]
    /\ mode' = "listener"
    /\ result' = Returned(FALSE)
    /\ evlog' = <<>>
    /\ cur' = NoEntry
    /\ clicks' = 0
    /\ bracket' = "none"
    /\ UNCHANGED <<queue_on, eventfiring, hasqueue, closepopup_queue, nextid, pc, firstonly,
                   closedpopup, inframe, window_handles, popped>>

\* ---------------------------------------------------------- closewindows
\* window handles: the open windows of a driver are distinct handles, in the
\* order they were opened
RECURSIVE Ascending(_)
Ascending(S) ==
    IF S = {} THEN <<>>
    ELSE LET x == CHOOSE y \in S : \A z \in S : y <= z
         IN <<x>> \o Ascending(S \ {x})

OpenWindows == {Ascending(S) : S \in SUBSET (1..3) \ {{}}}

\* keepwindows as a caller may pass it: any list of handles, open or not
KeepLists == {<<>>} \cup {<<a>> : a \in 1..4} \cup {<<a, c>> : a, c \in 1..4}

\* a call closewindows(webdriver, keepwindows) with handles open
CloseWindows(handles, keepwindows) ==
    /\ pc = "idle"
    /\ lastcall' = [NoCall EXCEPT !.name = "closewindows", !.attr = "function",
                                  !.path = "direct",
                                  !.args = [handles |-> handles,
                                            keepwindows |-> keepwindows],
                                  !.ret = closewindows(handles, keepwindows)]
    /\ mode' = "closewindows"
    /\ result' = Returned(FALSE)
    /\ evlog' = <<>>
    /\ cur' = NoEntry
    /\ clicks' = 0
    /\ bracket' = "none"
    /\ UNCHANGED <<queue_on, eventfiring, hasqueue, closepopup_queue, nextid, pc, firstonly,
                   closedpopup, inframe, window_handles, popped>>

\* -------------------------------------------------------------- wait4AJAX
\* how jQuery.active behaves while wait4AJAX runs: no jQuery on the page
\* ("absent"), 0 within the first second and from then on ("at_once"), 0
\* within the first second but not during the wait that follows ("relapse"),
\* 0 only after the first second but within the timeout ("late"), never 0
\* within the timeout ("never")
JQueryActive == {"absent", "at_once", "relapse", "late", "never"}

\* WebDriverWait(webdriver, 1).until(jQuery.active == 0)
ProbeWait(jq) ==
    CASE jq = "absent" -> "JavascriptException"
      [] jq \in {"at_once", "relapse"} -> "ok"
      [] OTHER -> "TimeoutException"

\* WebDriverWait(webdriver, timeout).until(jQuery.active == 0), after the
\* probe went through
ScriptWait(jq) == IF jq = "relapse" THEN "TimeoutException" ELSE "ok"

\* wait4AJAX: timeoutscript or timeoutdocrs (complete: document.readyState
\* becomes "complete" within the timeout)
wait4AJAX(jq, complete) ==
    LET timeoutscript ==
            IF ProbeWait(jq) \in {"JavascriptException", "TimeoutException"} THEN FALSE
            ELSE ScriptWait(jq) = "TimeoutException"
        timeoutdocrs == ~complete
    IN timeoutscript \/ timeoutdocrs

\* a call wait4AJAX(webdriver)
WaitForAJAX(jq, complete) ==
    /\ pc = "idle"
    /\ lastcall' = [NoCall EXCEPT !.name = "wait4AJAX", !.attr = "function",
                                  !.path = "direct",
                                  !.args = [jq |-> jq, complete |-> complete],
                                  !.ret = wait4AJAX(jq, complete)]
    /\ mode' = "wait4AJAX"
    /\ result' = Returned(wait4AJAX(jq, complete))
    /\ evlog' = <<>>
    /\ cur' = NoEntry
    /\ clicks' = 0
    /\ bracket' = "none"
    /\ UNCHANGED <<queue_on, eventfiring, hasqueue, closepopup_queue, nextid, pc, firstonly,
                   closedpopup, inframe, window_handles, popped>>

\* single calls of intercepted methods on an event-firing driver and the
\* wrappers it hands out, of the shadow DOM finder, of the listener, of
\* closewindows and of wait4AJAX
NextCalls ==
    \/ \E jq \in JQueryActive, complete \in BOOLEAN : WaitForAJAX(jq, complete)
    \/ \E handles \in OpenWindows, keepwindows \in KeepLists :
          CloseWindows(handles, keepwindows)
    \/ \E ev \in ListenerEvents, events_include, events_exclude \in SUBSET EventNames :
          Listen(ev, events_include, events_exclude)
    \/ \E locator_list \in LocatorLists, shadowroot \in {None, "ShadowRoot", "WebElement"},
          derive, script \in BOOLEAN, n \in 0..MaxElts :
            FindElementShadowdom(locator_list, shadowroot, Browser(derive, script, n))
    \/ \E m \in Methods, exc \in RealOutcomes, ret \in RealReturns :
          \E a \in CallerArgs(m.name) : Intercepted(m, a, exc, ret)
    \/ \E obj \in {"driver", "switch_to", "alert", "element"},
          has_before, has_after, interface, listed \in BOOLEAN,
          attr \in {"method", "value", "missing"}, exc \in RealOutcomes,
          ret \in RealReturns :
            AttributeCall(obj, Listener(has_before, has_after, interface, listed),
                          attr, exc, ret)

SpecCalls == Init /\ [][NextCalls]_vars

\* ------------------------------ enqueue and drain calls on the two objects
\* closepopup_queueadd called on the event-firing driver or on the driver it
\* wraps; requests are told apart by their ticket
LevelQueueadd(via) ==
    /\ pc = "idle"
    /\ nextid <= MaxTickets
    /\ (via = "efdriver") => eventfiring
    /\ queue_on' = QueueAdd(queue_on, via, nextid)
    /\ nextid' = nextid + 1
    /\ mode' = "levels"
    /\ result' = Returned(FALSE)
    /\ bracket' = "none"
    /\ evlog' = IF via = "efdriver"
                THEN Dispatch(None, "_closepopup_queueadd",
                              IF Resolve(queue_on, Webdriver(via)) # None THEN <<>>
                              ELSE GetattrMissing("closepopup_queue"), None, 0)
                ELSE <<>>
    /\ lastcall' = [NoCall EXCEPT !.obj = via, !.name = "closepopup_queueadd",
                                  !.path = Webdriver(via),
                                  !.ret = Resolve(queue_on', Webdriver(via))]
    /\ UNCHANGED <<eventfiring, hasqueue, closepopup_queue, pc, firstonly, closedpopup,
                   cur, inframe, window_handles, popped, clicks>>

\* closepopup_queueprocessing called on the event-firing driver or on the
\* driver it wraps, as a whole: the loop takes n entries with popleft(); it
\* returns when the queue is empty and stops early when an entry raises
LevelQueueprocessing(via, n, raises, closed) ==
    /\ pc = "idle"
    /\ (via = "efdriver") => eventfiring
    /\ LET lvl == Resolve(queue_on, Webdriver(via))
           q == IF lvl = None THEN <<>> ELSE queue_on[lvl].q
       IN /\ n <= Len(q)
          /\ raises => n >= 1
          /\ ~raises => n = Len(q)
          /\ closed => (n >= 1 /\ ~raises)
          /\ queue_on' = QueuePop(queue_on, via, n)
          /\ popped' = popped \o [k \in 1..n |-> q[k].id]
          /\ lastcall' = [NoCall EXCEPT !.obj = via,
                                        !.name = "closepopup_queueprocessing",
                                        !.path = Webdriver(via), !.ret = lvl]
    /\ mode' = "levels"
    /\ result' = IF raises THEN Raised("ErrorUtilsSelenium", 0, <<>>) ELSE Returned(closed)
    /\ bracket' = IF via # "efdriver" THEN "none" ELSE IF raises THEN "open" ELSE "closed"
    /\ evlog' = IF via = "efdriver"
                THEN DispatchBefore("closepopuphandler")
                       \o <<Ev("call", "_closepopup_queueprocessing", 0)>>
                       \o (IF raises THEN <<>> ELSE DispatchAfter("closepopuphandler"))
                ELSE <<>>
    /\ UNCHANGED <<eventfiring, hasqueue, closepopup_queue, nextid, pc, firstonly,
                   closedpopup, cur, inframe, window_handles, clicks>>

NextLevels ==
    \/ \E via \in Objects : LevelQueueadd(via)
    \/ \E via \in Objects, n \in 0..MaxTickets, raises, closed \in BOOLEAN :
          LevelQueueprocessing(via, n, raises, closed)

\* the queue attribute of an event-firing driver and of the driver it wraps
SpecLevels == Init /\ [][NextLevels]_vars

\* the popup-close queue on a plain or an event-firing driver
Next ==
    \/ \E req \in Requests : closepopup_queueadd(req)
    \/ \E req \in Requests : closepopup(req)
    \/ \E fo \in BOOLEAN : closepopup_queueprocessing(fo)
    \/ Dequeue
    \/ ResolveFrame
    \/ FindTargets
    \/ ClickElement
    \/ CheckLookup
    \/ VerifyElement
    \/ SwitchBack
    \/ Return

Spec == Init /\ [][Next]_vars

\* ------------------------------------------------------------ properties
Drains == {"simpleclose", "queueprocessing"}

\* the call has returned to its caller
HasReturned == pc = "idle" /\ result.kind = "return" /\ mode \in Drains

\* the call has raised to its caller
HasRaised == pc = "idle" /\ result.kind = "raise" /\ mode \in Drains

TypeOK ==
    /\ eventfiring \in BOOLEAN /\ hasqueue \in BOOLEAN
    /\ pc \in {"idle", "loop", "frame", "find", "click", "check", "verify", "back"}
    /\ mode \in Drains \cup {"none", "intercept", "shadowdom", "listener", "closewindows",
                             "wait4AJAX", "levels"}
    /\ \A o \in Objects : queue_on[o].has \/ queue_on[o].q = <<>>
    /\ firstonly \in BOOLEAN /\ closedpopup \in BOOLEAN /\ inframe \in BOOLEAN
    /\ nextid \in 1..((IF mode = "levels" THEN MaxTickets ELSE MaxReq) + 1)
    /\ Len(closepopup_queue) <= MaxReq
    /\ bracket \in {"none", "open", "closed"}
    /\ cur.nelts \in 0..MaxElts /\ cur.idx \in 0..cur.nelts
    /\ Len(window_handles) = 1

\* C1: the queue is first in, first out. Tickets are handed out in enqueue
\* order, so: popleft() returns tickets in increasing order, every entry still
\* queued was enqueued after every entry already taken, the queue itself is
\* in enqueue order, and the entry in work is the one taken last.
C1_FifoOrder ==
    /\ \A i, j \in 1..Len(popped) : i < j => popped[i] < popped[j]
    /\ \A i \in 1..Len(popped), k \in 1..Len(closepopup_queue) :
          popped[i] < closepopup_queue[k].id
    /\ \A k, l \in 1..Len(closepopup_queue) :
          k < l => closepopup_queue[k].id < closepopup_queue[l].id
    /\ (cur.id # 0) => (popped # <<>> /\ cur.id = popped[Len(popped)])

\* two requests enqueued one after the other were both clicked in one drain
C1_Witness == clicks = 2 /\ popped = <<1, 2>> /\ mode = "queueprocessing"

\* C4: a request whose iframe locator matches no frame or more than one is
\* skipped: no frame switch, no host or target lookup, no click, no exception,
\* and the loop goes on (it is back at its head, or has returned).
C4_FrameSkipped ==
    (cur.frames = 0 \/ cur.frames > 1) =>
        /\ cur.switches = 0
        /\ cur.hosts = -1 /\ cur.nelts = 0 /\ cur.lookups = 1
        /\ cur.nclicks = 0 /\ cur.clicked = 0
        /\ cur.outcome \in {"FRAME not found", "FRAME not unique"}
        /\ result.kind # "raise"
        /\ pc = "loop" \/ HasReturned

\* a request with an ambiguous iframe locator was skipped and the next
\* request is waiting in the queue
C4_Witness ==
    cur.frames = 2 /\ pc = "loop" /\ Len(closepopup_queue) = 1 /\ cur.switches = 0

\* C5: a request whose shadow host locator matches no host or more than one
\* is skipped: no target lookup in a shadow root, no click, no exception, and
\* the loop goes on.
C5_HostSkipped ==
    (cur.hosts = 0 \/ cur.hosts > 1) =>
        /\ cur.nelts = 0
        /\ cur.nclicks = 0 /\ cur.clicked = 0
        /\ cur.outcome \in {"ShadowDOM host not found", "ShadowDOM host not unique"}
        /\ result.kind # "raise"
        /\ pc = "loop" \/ HasReturned

\* a request whose shadow host was not found was skipped and the next request
\* is waiting in the queue
C5_Witness ==
    cur.hosts = 0 /\ pc = "loop" /\ Len(closepopup_queue) = 1 /\ cur.nclicks = 0

\* C6 as stated: for a request with check_click whose target was clicked, a
\* displayed element in the re-lookup makes the call raise ErrorUtilsSelenium,
\* and when the re-lookup is through and no element of it is displayed, no
\* error is raised.
C6_VerifiedClose ==
    /\ (cur.verified = "displayed")
          => (HasRaised /\ result.exc = "ErrorUtilsSelenium")
    /\ (cur.check_click /\ cur.clicked > 0 /\ cur.verified \in {"gone", "stale"}
          /\ cur.idx = cur.nelts)
          => result.kind # "raise"

\* C7 as stated: every request the loop is done with has been attempted (its
\* target, frame or shadow host has been looked for) and at most once (one
\* click, one frame switch), no request is taken from the queue twice or put
\* back, and when a drain returns the queue is empty.
C7_AttemptedExactlyOnce ==
    /\ (cur.id # 0 /\ pc \in {"loop", "idle"}) => cur.lookups >= 1
    /\ cur.nclicks <= 1 /\ cur.switches <= 1
    /\ \A i, j \in 1..Len(popped) : i # j => popped[i] # popped[j]
    /\ \A i \in 1..Len(popped), k \in 1..Len(closepopup_queue) :
          closepopup_queue[k].id # popped[i]
    /\ HasReturned => closepopup_queue = <<>>

\* C7, amended: no request is taken from the queue twice, a request taken is
\* not in the queue any more (it is never put back), one request is clicked
\* and switched into at most once, when a drain returns the queue is empty,
\* and a request is dropped without an attempt only by a firstonly drain
\* that has closed a popup before.
C7_OnceThenDiscarded ==
    /\ (cur.id # 0 /\ pc \in {"loop", "idle"} /\ cur.lookups = 0) =>
          (firstonly /\ closedpopup /\ cur.outcome = "not checked")
    /\ \A i, j \in 1..Len(popped) : i # j => popped[i] # popped[j]
    /\ \A i \in 1..Len(popped), k \in 1..Len(closepopup_queue) :
          closepopup_queue[k].id # popped[i]
    /\ cur.nclicks <= 1 /\ cur.switches <= 1
    /\ HasReturned => closepopup_queue = <<>>
    /\ Len(popped) + Len(closepopup_queue) = nextid - 1

\* a drain returned after a request that could not be resolved; both requests
\* of the run are gone from the queue
C7_Witness ==
    /\ HasReturned /\ Len(popped) = 2
    /\ cur.outcome \in {"FRAME not found", "ShadowDOM host not unique", "not found"}

\* C8: with firstonly at most one click is done in a drain, and a request
\* taken from the queue after the first close is only logged "not checked":
\* no lookup, no frame switch, no click.
C8_FirstOnly ==
    (firstonly /\ mode \in Drains) =>
        /\ clicks <= 1
        /\ (closedpopup /\ cur.id # 0 /\ cur.clicked = 0) =>
              /\ cur.outcome = "not checked"
              /\ cur.lookups = 0 /\ cur.switches = 0 /\ cur.nclicks = 0
              /\ cur.frames = -1 /\ cur.hosts = -1
              /\ pc \in {"loop", "idle"}

\* the second request of a firstonly drain was dropped unchecked
C8_Witness ==
    firstonly /\ cur.outcome = "not checked" /\ cur.id = 2 /\ clicks = 1

\* C9: the value returned is True exactly when a click was done in this call.
C9_ReturnsClosed == HasReturned => (result.value <=> clicks > 0)

\* closepopup returned True after a drain of two requests
C9_Witness ==
    HasReturned /\ result.value /\ mode = "simpleclose" /\ Len(popped) = 2

\* C10: at most one element is clicked per request; the one clicked answered
\* is_displayed() with True and every element before it was hidden, stale or
\* went stale in click(); a stale element never ends the click loop with an
\* exception.
C10_VisibilityGated ==
    /\ cur.nclicks <= 1
    /\ (cur.clicked > 0) <=> (cur.nclicks = 1)
    /\ (cur.clicked > 0 /\ cur.verified = "no") =>
          /\ cur.element = "visible"
          /\ cur.idx = cur.clicked
          /\ cur.skipped \subseteq {"hidden", "stale", "visible_stale"}
    /\ (HasRaised /\ cur.verified = "no") => result.exc # Stale

\* the first element was stale, the second was displayed and clicked
C10_Witness == cur.clicked = 2 /\ cur.skipped = {"stale"} /\ cur.verified = "no"

\* the last call went through hooks: a method dispatched with a listener
\* event, or a callable attribute answered by _getattr_dispatch_generic
Hooked ==
    \/ lastcall.path = "dispatch" /\ lastcall.l_call # None
    \/ lastcall.path \in {"named", "generic"} /\ lastcall.attr = "method"

PreHook ==
    IF lastcall.path = "generic" THEN Ev("generic_before", lastcall.d_call, 0)
    ELSE Ev("before", lastcall.l_call, 0)

PostHook ==
    IF lastcall.path = "generic" THEN Ev("generic_after", lastcall.d_call, 0)
    ELSE Ev("after", lastcall.l_call, 0)

HookEvents == {"before", "after", "generic_before", "generic_after"}

C3_NotifiedExactlyOnce ==
    (eventfiring /\ pc = "idle" /\ result.kind = "raise") => result.notified = 1

\* the methods the wrappers define in order to forward them
Forwarding ==
    {"start_session", "refresh", "add_cookie", "delete_all_cookies", "delete_cookie",
     "get_cookies", "get_cookie", "request", "default_content", "frame", "new_window",
     "parent_frame", "window", "dismiss", "accept", "send_keys", "submit"}

\* C11 as stated: every forwarding method calls the wrapped object's method of
\* the same name with exactly the positional and keyword arguments the caller
\* passed.
C11_ForwardsSameCall ==
    (mode = "intercept" /\ lastcall.path = "dispatch" /\ lastcall.name \in Forwarding) =>
        /\ lastcall.real.bound
        /\ lastcall.real.name = lastcall.name
        /\ lastcall.real.pos = lastcall.args.pos
        /\ lastcall.real.kw = lastcall.args.kw

\* the objects of the wrapped driver that have an event-firing counterpart,
\* and the wrapped driver itself
RawObjects == {"WebDriver", "WebElement", "SwitchTo", "Alert", "list of WebElement"}

\* the last call was a call (of a wrapper method that returns its result, or
\* of a callable attribute) and it returned
CallReturned ==
    /\ mode = "intercept" /\ result.kind = "return" /\ lastcall.attr = "method"
    /\ lastcall.path = "dispatch" => ReturnsResult(lastcall.name)

Looked == mode = "shadowdom" /\ lastcall.real.looked

\* C13: find_element_shadowdom returns the element exactly when the lookup
\* ran and one element matched, returns None exactly when the lookup ran and
\* the script failed or nothing matched, raises ErrorUtilsSelenium when more
\* than one element matched, and never returns an element out of several.
C13_OneOrNoneOrError ==
    (mode = "shadowdom") =>
        /\ (Looked /\ lastcall.real.script /\ lastcall.real.n = 1)
              <=> (result.kind = "return" /\ result.obj = "WebElement")
        /\ (Looked /\ (~lastcall.real.script \/ lastcall.real.n = 0))
              <=> (result.kind = "return" /\ result.obj = None)
        /\ (Looked /\ lastcall.real.script /\ lastcall.real.n > 1)
              => (result.kind = "raise" /\ result.exc = "ErrorUtilsSelenium")
        /\ (lastcall.real.n > 1) => result.kind # "return"

\* two elements matched a two-level locator chain and the call raised
C13_Witness ==
    /\ Looked /\ lastcall.real.n = 2 /\ Len(lastcall.args.locator_list) = 2
    /\ result.kind = "raise" /\ result.exc = "ErrorUtilsSelenium"

\* C14 as stated: a request with a shadow host whose click locator is neither
\* XPATH nor CSS is rejected with ErrorUtilsSelenium as soon as the loop takes
\* it up, so nothing is looked up for it; an XPATH click locator of a request
\* with a shadow host is CSS by the time anything is looked up.
C14_RejectsOtherLocators ==
    /\ (cur.id # 0 /\ cur.locator_shadowdomhost # None /\ cur.outcome # "not checked"
           /\ cur.locator_click \notin {XPATH, CSS_SELECTOR})
          => (HasRaised /\ result.exc = "ErrorUtilsSelenium" /\ cur.lookups = 0)
    /\ (cur.id # 0 /\ cur.locator_shadowdomhost # None /\ cur.lookups > 0)
          => cur.locator_click # XPATH

\* C15 as stated: SimpleEventListener writes a log record for an event exactly
\* when the event name passes checkevent, and never for an event named in the
\* exclude list.
C15_LogsOnlyCheckedEvents ==
    (mode = "listener") =>
        /\ lastcall.ret <=> checkevent(lastcall.args.event_name,
                                       lastcall.args.events_include,
                                       lastcall.args.events_exclude)
        /\ (lastcall.args.event_name \in lastcall.args.events_exclude) => ~lastcall.ret

\* C16 as stated: closewindows with a non-empty keep list terminates, leaves
\* every kept window open and leaves no window open that is not in the keep
\* list; with an empty keep list it closes nothing.
C16_ClosesAllButKept ==
    (mode = "closewindows") =>
        LET before == lastcall.args.handles
            keep == lastcall.args.keepwindows
            left == lastcall.ret.handles
        IN /\ ~lastcall.ret.spins
           /\ \A k \in 1..Len(before) : InSeq(before[k], keep) => InSeq(before[k], left)
           /\ (keep # <<>>) => \A k \in 1..Len(left) : InSeq(left[k], keep)
           /\ (keep = <<>>) => (left = before /\ lastcall.ret.closed = 0)

\* C17 as stated: wait4AJAX returns True exactly when jQuery is on the page
\* and jQuery.active did not get to 0 within the timeout, or
\* document.readyState did not become "complete" within the timeout; a page
\* without jQuery and with a complete document gives False.
C17_ReturnsTimeoutReached ==
    (mode = "wait4AJAX") =>
        /\ result.value <=> (lastcall.args.jq \in {"never", "relapse"}
                               \/ ~lastcall.args.complete)
        /\ (lastcall.args.jq = "absent" /\ lastcall.args.complete) => ~result.value

\* the last call fetched a name from the event-firing driver by __getattr__
DriverAttribute ==
    mode = "intercept" /\ lastcall.obj = "driver" /\ lastcall.path # "dispatch"

\* what the listener is told when the attribute call raised exc
Reported(exc) == IF IsException(exc) THEN <<Ev("on_exception", exc, 0)>> ELSE <<>>

\* C18: for a callable name the event-firing driver does not define, the
\* named hooks surround the call when the listener has both of them; else
\* the generic listener is told "before_<name>" and "after_<name>" around the
\* call when the listener has the generic interface and lists the name; else
\* the call is made with no hook, and in each case an exception of the call
\* is reported; a non-callable attribute comes back as it is with no hook.
C18_GetattrPriority ==
    DriverAttribute =>
        LET l == lastcall.args
            call == Ev("call", "attr", 0)
            tail == IF result.kind = "raise" THEN Reported(result.exc) ELSE <<>>
        IN /\ (lastcall.attr = "method" /\ HasHooks(l)) =>
                 evlog = <<Ev("before", "attr", 0), call>> \o
                            (IF result.kind = "raise" THEN tail
                             ELSE <<Ev("after", "attr", 0)>>)
           /\ (lastcall.attr = "method" /\ ~HasHooks(l) /\ HasGeneric(l)) =>
                 evlog = <<Ev("generic_before", "attr", 0), call>> \o
                            (IF result.kind = "raise" THEN tail
                             ELSE <<Ev("generic_after", "attr", 0)>>)
           /\ (lastcall.attr = "method" /\ ~HasHooks(l) /\ ~HasGeneric(l)) =>
                 evlog = <<call>> \o tail
           /\ (lastcall.attr = "value") =>
                 (evlog = <<>> /\ result.kind = "return" /\ result.obj = lastcall.ret)

\* the listener has the named hooks and also lists the name as generic: the
\* named hooks were told
C18_Witness ==
    /\ DriverAttribute /\ lastcall.attr = "method" /\ result.kind = "return"
    /\ HasHooks(lastcall.args) /\ HasGeneric(lastcall.args)
    /\ evlog = <<Ev("before", "attr", 0), Ev("call", "attr", 0), Ev("after", "attr", 0)>>

\* the notifications of the bracket around a drain
BeforeHandler == Ev("before", "closepopuphandler", 0)

AfterHandler == Ev("after", "closepopuphandler", 0)

\* the method the bracket of a drain dispatches to
DrainCall ==
    IF mode = "simpleclose" THEN "_closepopup" ELSE "_closepopup_queueprocessing"

\* the drain has just been entered: nothing is taken from the queue yet
DrainEntered == mode \in Drains /\ pc = "loop" /\ cur.id = 0

Tickets(o) == {queue_on[o].q[k].id : k \in 1..Len(queue_on[o].q)}

\* the last call was made on the event-firing driver
LastOnEF(name) == mode = "levels" /\ lastcall.obj = "efdriver" /\ lastcall.name = name

\* C20: every request enqueued through the event-firing driver waits in the
\* queue that a drain through the event-firing driver takes its entries from,
\* whatever enqueue and drain calls were made before on either object: the
\* enqueue and the drain run with the event-firing driver itself as webdriver,
\* a drain that returns leaves none of these requests behind, and no request
\* is lost or queued twice.
C20_SameLevel ==
    /\ \A o \in Objects : \A k \in 1..Len(queue_on[o].q) :
          (queue_on[o].q[k].via = "efdriver") =>
             /\ queue_on[o].q[k].webdriver = "efdriver"
             /\ o = Resolve(queue_on, Webdriver("efdriver"))
    /\ (mode = "levels" /\ lastcall.obj = "efdriver") => lastcall.path = "efdriver"
    /\ LastOnEF("closepopup_queueadd") =>
          /\ lastcall.ret = Resolve(queue_on, "efdriver")
          /\ lastcall.ret # None
          /\ queue_on[lastcall.ret].q[Len(queue_on[lastcall.ret].q)].id = nextid - 1
    /\ (LastOnEF("closepopup_queueprocessing") /\ result.kind = "return") =>
          \A o \in Objects : \A k \in 1..Len(queue_on[o].q) :
              queue_on[o].q[k].via # "efdriver"
    /\ (mode = "levels") =>
          /\ \A t \in 1..(nextid - 1) :
                Cardinality({o \in Objects : t \in Tickets(o)})
                  + Cardinality({k \in 1..Len(popped) : popped[k] = t}) = 1
          /\ \A o \in Objects : Cardinality(Tickets(o)) = Len(queue_on[o].q)

\* both objects hold a queue of their own, a request enqueued through the
\* event-firing driver waits in the one of the event-firing driver
C20_Witness ==
    /\ LastOnEF("closepopup_queueadd")
    /\ queue_on["efdriver"].has /\ queue_on["driver"].has
    /\ Len(queue_on["efdriver"].q) > 0
    /\ queue_on["efdriver"].q[1].via = "efdriver"

====
